---- MODULE Spec2Model ----
(***************************************************************************)
(* Model of notebooks/data_split.ipynb: split() and its three modes.       *)
(*                                                                         *)
(* Indices are 0-based as in Python; the label with index i is             *)
(* labels[i + 1].  A ratio is modelled by its numerator over RatioDen, so  *)
(* ratio r stands for the float r / RatioDen.  numpy arrays are modelled   *)
(* as buffers (perm, train, val, test) and the three returned values tr,   *)
(* v, t as views [base, lo, hi) into a buffer, because the slices returned *)
(* by _split_random share the storage of perm and random.shuffle works in  *)
(* place.                                                                  *)
(***************************************************************************)
EXTENDS Integers, Sequences, FiniteSets

\* ---- bounds ----
MaxLen == 3
NumClasses == 2
RatioDen == 4

Classes == 0 .. (NumClasses - 1)
RatioInputs == (0 - 1) .. (RatioDen + 1)
Modes == {"same", "ratio", "random", "bogus"}

VARIABLES labels, ratio_t, ratio_v, mode, shuffle,
          pc, err, positions, keys, perm, train, val, test,
          tr, v, t, ret, draws

vars == <<labels, ratio_t, ratio_v, mode, shuffle,
          pc, err, positions, keys, perm, train, val, test,
          tr, v, t, ret, draws>>

inputs == <<labels, ratio_t, ratio_v, mode, shuffle>>

\* ---- helpers ----
Min(a, b) == IF a < b THEN a ELSE b
Max(a, b) == IF a > b THEN a ELSE b

Range(s) == {s[k] : k \in 1 .. Len(s)}

\* all label sequences of length 0 .. MaxLen
LabelSeqs == UNION {[1 .. n -> Classes] : n \in 0 .. MaxLen}

\* numpy.random.permutation(n): any ordering of 0 .. n-1
Permutations(n) ==
    {p \in [1 .. n -> 0 .. (n - 1)] : \A a, b \in 1 .. n : p[a] = p[b] => a = b}

\* variant: rounds up, as _split_same does
FloorRoundsUp(n, r) == 0 - ((0 - (n * r)) \div RatioDen)

\* int(numpy.floor(n * r))
Floor(n, r) == (n * r) \div RatioDen

\* int(numpy.ceil(n * r))
Ceil(n, r) == 0 - ((0 - (n * r)) \div RatioDen)

\* position of a slice bound in a sequence of length n (Python/numpy rules)
Norm(i, n) == IF i < 0 THEN Max(n + i, 0) ELSE Min(i, n)

\* s[lo:hi]
PySlice(s, lo, hi) ==
    LET a == Norm(lo, Len(s))
        b == Norm(hi, Len(s))
    IN  IF a >= b THEN << >> ELSE SubSeq(s, a + 1, b)

\* arr[idx] for an integer index array idx (0-based fancy indexing)
Take(arr, idx) == [k \in 1 .. Len(idx) |-> arr[idx[k] + 1]]

\* variant: the lower bound is not checked
BadRatioUpperOnly(r) == r > RatioDen

\* _check_ratio raises
BadRatio(r) == r < 0 \/ r > RatioDen

\* numpy.where(labels == c)[0]
Where(ls, c) ==
    LET Hit(i) == ls[i + 1] = c
    IN  SelectSeq([k \in 1 .. Len(ls) |-> k - 1], Hit)

\* { i: numpy.where(labels == i)[0] for i in numpy.unique(labels) }
Positions(ls) == [c \in Range(ls) |-> Where(ls, c)]

\* ---- buffers and views ----
NoView == [base |-> "none", lo |-> 0, hi |-> 0]

Buf(b, pm, trn, vl, tst) ==
    CASE b = "perm" -> pm
      [] b = "train" -> trn
      [] b = "val" -> vl
      [] b = "test" -> tst
      [] OTHER -> << >>

\* the elements a view shows, in the current state
Deref(w) == SubSeq(Buf(w.base, perm, train, val, test), w.lo + 1, w.hi)

\* view of buffer b (of length n) for the slice [lo:hi]
ViewOf(b, n, lo, hi) ==
    LET a == Norm(lo, n)
        z == Norm(hi, n)
    IN  [base |-> b, lo |-> a, hi |-> Max(a, z)]

\* buffer s with the elements of window [lo, hi) reordered by p
Reorder(s, lo, hi, p) ==
    [k \in 1 .. Len(s) |->
        IF k > lo /\ k <= hi THEN s[lo + p[k - lo] + 1] ELSE s[k]]

\* ---- initial state: the arguments of one call of split ----
Init ==
    /\ labels \in LabelSeqs
    /\ ratio_t \in RatioInputs
    /\ ratio_v \in RatioInputs
    /\ mode \in Modes
    /\ shuffle \in BOOLEAN
    /\ pc = "check_t"
    /\ err = "none"
    /\ positions = << >>
    /\ keys = {}
    /\ perm = << >>
    /\ train = << >>
    /\ val = << >>
    /\ test = << >>
    /\ tr = NoView
    /\ v = NoView
    /\ t = NoView
    /\ ret = << >>
    /\ draws = 0

\* ---- split, lines 36-37 ----
CheckRatioT ==
    /\ pc = "check_t"
    /\ IF BadRatio(ratio_t)
       THEN pc' = "error" /\ err' = "InvalidRatio"
       ELSE pc' = "check_v" /\ err' = err
    /\ UNCHANGED <<inputs, positions, keys, perm, train, val, test,
                   tr, v, t, ret, draws>>

CheckRatioV ==
    /\ pc = "check_v"
    /\ IF BadRatio(ratio_v)
       THEN pc' = "error" /\ err' = "InvalidRatio"
       ELSE pc' = "group" /\ err' = err
    /\ UNCHANGED <<inputs, positions, keys, perm, train, val, test,
                   tr, v, t, ret, draws>>

\* ---- split, lines 40-41 ----
Group ==
    /\ pc = "group"
    /\ positions' = Positions(labels)
    /\ pc' = "dispatch"
    /\ UNCHANGED <<inputs, err, keys, perm, train, val, test,
                   tr, v, t, ret, draws>>

\* ---- split, lines 49-50 ----
UnknownMode ==
    /\ pc = "dispatch"
    /\ mode \notin {"same", "ratio", "random"}
    /\ pc' = "error"
    /\ err' = "UnknownMode"
    /\ UNCHANGED <<inputs, positions, keys, perm, train, val, test,
                   tr, v, t, ret, draws>>

\* ---- _split_random ----
\* variant: the test slice starts one element late
RandomViewsOffByOne(n, ct, vt) ==
    [tr |-> ViewOf("perm", n, 0, ct),
     v  |-> ViewOf("perm", n, ct, ct + vt),
     t  |-> ViewOf("perm", n, ct + vt + 1, n)]

\* variant: the validation slice starts at 0 instead of ct
RandomViewsOverlap(n, ct, vt) ==
    [tr |-> ViewOf("perm", n, 0, ct),
     v  |-> ViewOf("perm", n, 0, ct + vt),
     t  |-> ViewOf("perm", n, ct + vt, n)]

RandomViews(n, ct, vt) ==
    [tr |-> ViewOf("perm", n, 0, ct),
     v  |-> ViewOf("perm", n, ct, ct + vt),
     t  |-> ViewOf("perm", n, ct + vt, n)]

SplitRandom ==
    /\ pc = "dispatch"
    /\ mode = "random"
    /\ \E p \in Permutations(Len(labels)) :
         LET ct == Floor(Len(labels), ratio_t)
             vt == Floor(Len(labels), ratio_v)
             w  == RandomViews(Len(labels), ct, vt)
         IN  /\ perm' = p
             /\ tr' = w.tr
             /\ v' = w.v
             /\ t' = w.t
             /\ ret' = [tr |-> SubSeq(p, w.tr.lo + 1, w.tr.hi),
                        v  |-> SubSeq(p, w.v.lo + 1, w.v.hi),
                        t  |-> SubSeq(p, w.t.lo + 1, w.t.hi)]
    /\ draws' = draws + 1
    /\ pc' = "shuffle_tr"
    /\ UNCHANGED <<inputs, err, positions, keys, train, val, test>>

\* ---- _split_ratio and _split_same: shared pieces ----
\* variant: the validation slice is perm[0:cv]
ClassSlicesOverlap(pos, p, ct, cv, cte) ==
    [train |-> Take(pos, PySlice(p, 0, ct)),
     val   |-> Take(pos, PySlice(p, 0, cv)),
     test  |-> Take(pos, PySlice(p, ct + cv, ct + cv + cte))]

\* the three per-class contributions, lines 91-93 and 123-125
ClassSlices(pos, p, ct, cv, cte) ==
    [train |-> Take(pos, PySlice(p, 0, ct)),
     val   |-> Take(pos, PySlice(p, ct, ct + cv)),
     test  |-> Take(pos, PySlice(p, ct + cv, ct + cv + cte))]

\* numpy.asarray(train), numpy.asarray(val), numpy.asarray(test)
WholeViews(trn, vl, tst) ==
    [tr |-> [base |-> "train", lo |-> 0, hi |-> Len(trn)],
     v  |-> [base |-> "val",   lo |-> 0, hi |-> Len(vl)],
     t  |-> [base |-> "test",  lo |-> 0, hi |-> Len(tst)]]

\* ---- _split_ratio ----
\* variant: the test count is floor(n * (1 - ratio_t - ratio_v))
RatioCountsTestByRatio(n, rt, rv) ==
    [ct  |-> Floor(n, rt),
     cv  |-> Floor(n, rv),
     cte |-> Floor(n, RatioDen - rt - rv)]

RatioCounts(n, rt, rv) ==
    [ct  |-> Floor(n, rt),
     cv  |-> Floor(n, rv),
     cte |-> n - Floor(n, rv) - Floor(n, rt)]

SplitRatioBegin ==
    /\ pc = "dispatch"
    /\ mode = "ratio"
    /\ train' = << >>
    /\ val' = << >>
    /\ test' = << >>
    /\ keys' = DOMAIN positions
    /\ pc' = "loop_ratio"
    /\ UNCHANGED <<inputs, err, positions, perm, tr, v, t, ret, draws>>

\* one iteration of the loop over positions.keys(), in any order
SplitRatioStep ==
    /\ pc = "loop_ratio"
    /\ \E i \in keys :
         \E p \in Permutations(Len(positions[i])) :
           LET c == RatioCounts(Len(p), ratio_t, ratio_v)
               s == ClassSlices(positions[i], p, c.ct, c.cv, c.cte)
           IN  /\ train' = train \o s.train
               /\ val' = val \o s.val
               /\ test' = test \o s.test
               /\ keys' = keys \ {i}
    /\ draws' = draws + 1
    /\ UNCHANGED <<inputs, pc, err, positions, perm, tr, v, t, ret>>

SplitRatioReturn ==
    /\ pc = "loop_ratio"
    /\ keys = {}
    /\ tr' = WholeViews(train, val, test).tr
    /\ v' = WholeViews(train, val, test).v
    /\ t' = WholeViews(train, val, test).t
    /\ ret' = [tr |-> train, v |-> val, t |-> test]
    /\ pc' = "shuffle_tr"
    /\ UNCHANGED <<inputs, err, positions, keys, perm, train, val, test, draws>>

\* ---- _split_same ----
\* min(counts.values()) for a non-empty grouping
PerClass(pos) ==
    LET cnt == {Len(pos[i]) : i \in DOMAIN pos}
    IN  CHOOSE m \in cnt : \A x \in cnt : m <= x

\* variant: rounds down, as _split_ratio does
SameCountsFloor(pcl, rt, rv) ==
    [ct  |-> Floor(pcl, rt),
     cv  |-> Floor(pcl, rv),
     cte |-> pcl - Floor(pcl, rt) - Floor(pcl, rv)]

SameCounts(pcl, rt, rv) ==
    [ct  |-> Ceil(pcl, rt),
     cv  |-> Ceil(pcl, rv),
     cte |-> pcl - Ceil(pcl, rt) - Ceil(pcl, rv)]

\* min() of an empty sequence raises ValueError
SplitSameEmpty ==
    /\ pc = "dispatch"
    /\ mode = "same"
    /\ DOMAIN positions = {}
    /\ pc' = "error"
    /\ err' = "EmptyMin"
    /\ UNCHANGED <<inputs, positions, keys, perm, train, val, test,
                   tr, v, t, ret, draws>>

SplitSameBegin ==
    /\ pc = "dispatch"
    /\ mode = "same"
    /\ DOMAIN positions # {}
    /\ train' = << >>
    /\ val' = << >>
    /\ test' = << >>
    /\ keys' = DOMAIN positions
    /\ pc' = "loop_same"
    /\ UNCHANGED <<inputs, err, positions, perm, tr, v, t, ret, draws>>

SplitSameStep ==
    /\ pc = "loop_same"
    /\ \E i \in keys :
         \E p \in Permutations(Len(positions[i])) :
           LET c == SameCounts(PerClass(positions), ratio_t, ratio_v)
               s == ClassSlices(positions[i], p, c.ct, c.cv, c.cte)
           IN  /\ train' = train \o s.train
               /\ val' = val \o s.val
               /\ test' = test \o s.test
               /\ keys' = keys \ {i}
    /\ draws' = draws + 1
    /\ UNCHANGED <<inputs, pc, err, positions, perm, tr, v, t, ret>>

SplitSameReturn ==
    /\ pc = "loop_same"
    /\ keys = {}
    /\ tr' = WholeViews(train, val, test).tr
    /\ v' = WholeViews(train, val, test).v
    /\ t' = WholeViews(train, val, test).t
    /\ ret' = [tr |-> train, v |-> val, t |-> test]
    /\ pc' = "shuffle_tr"
    /\ UNCHANGED <<inputs, err, positions, keys, perm, train, val, test, draws>>

\* ---- split, lines 52-57 ----
\* random.shuffle(x) on the view w: the window of its buffer is reordered
ShuffleView(w) ==
    \E p \in Permutations(w.hi - w.lo) :
        /\ perm'  = IF w.base = "perm"  THEN Reorder(perm, w.lo, w.hi, p)  ELSE perm
        /\ train' = IF w.base = "train" THEN Reorder(train, w.lo, w.hi, p) ELSE train
        /\ val'   = IF w.base = "val"   THEN Reorder(val, w.lo, w.hi, p)   ELSE val
        /\ test'  = IF w.base = "test"  THEN Reorder(test, w.lo, w.hi, p)  ELSE test

ShuffleTr ==
    /\ pc = "shuffle_tr"
    /\ shuffle = TRUE
    /\ ShuffleView(tr)
    /\ draws' = draws + 1
    /\ pc' = "shuffle_v"
    /\ UNCHANGED <<inputs, err, positions, keys, tr, v, t, ret>>

ShuffleV ==
    /\ pc = "shuffle_v"
    /\ ShuffleView(v)
    /\ draws' = draws + 1
    /\ pc' = "shuffle_t"
    /\ UNCHANGED <<inputs, err, positions, keys, tr, v, t, ret>>

ShuffleT ==
    /\ pc = "shuffle_t"
    /\ ShuffleView(t)
    /\ draws' = draws + 1
    /\ pc' = "done"
    /\ UNCHANGED <<inputs, err, positions, keys, tr, v, t, ret>>

NoShuffle ==
    /\ pc = "shuffle_tr"
    /\ shuffle = FALSE
    /\ pc' = "done"
    /\ UNCHANGED <<inputs, err, positions, keys, perm, train, val, test,
                   tr, v, t, ret, draws>>

Next ==
    \/ CheckRatioT
    \/ CheckRatioV
    \/ Group
    \/ UnknownMode
    \/ SplitRandom
    \/ SplitRatioBegin
    \/ SplitRatioStep
    \/ SplitRatioReturn
    \/ SplitSameEmpty
    \/ SplitSameBegin
    \/ SplitSameStep
    \/ SplitSameReturn
    \/ ShuffleTr
    \/ ShuffleV
    \/ ShuffleT
    \/ NoShuffle

Spec == Init /\ [][Next]_vars

\* ---- what split returns, and counting helpers for the properties ----
Tr == Deref(tr)
V == Deref(v)
T == Deref(t)

N == Len(labels)
ValidRatios == ratio_t \in 0 .. RatioDen /\ ratio_v \in 0 .. RatioDen

\* number of occurrences of x in the sequence s
Occ(s, x) == Cardinality({k \in 1 .. Len(s) : s[k] = x})

\* number of indices of class c in the sequence s
CountOf(s, c) == Cardinality({k \in 1 .. Len(s) : labels[s[k] + 1] = c})

\* L_c
ClassSize(c) == Cardinality({k \in 1 .. N : labels[k] = c})

\* minimum class size of a non-empty label sequence
MinClassSize ==
    CHOOSE m \in {ClassSize(c) : c \in Range(labels)} :
        \A c \in Range(labels) : m <= ClassSize(c)

SameBag(a, b) == \A x \in Range(a) \cup Range(b) : Occ(a, x) = Occ(b, x)

\* C1: in every mode and for every pair of valid ratios (sums above 1
\* included), the returned train, validation and test sequences are
\* pairwise disjoint: no index appears in two buckets.
C1_Disjoint ==
    pc = "done" =>
        /\ Range(Tr) \cap Range(V) = {}
        /\ Range(Tr) \cap Range(T) = {}
        /\ Range(V) \cap Range(T) = {}

C1_Witness ==
    /\ pc = "done"
    /\ mode = "ratio"
    /\ ratio_t + ratio_v > RatioDen
    /\ Tr # << >>
    /\ V # << >>

\* C2: in random mode the three buckets have N elements in total and
\* contain every index of 0 .. N-1 exactly once.
C2_RandomCoversAll ==
    (pc = "done" /\ mode = "random") =>
        /\ Len(Tr) + Len(V) + Len(T) = N
        /\ \A i \in 0 .. (N - 1) : Occ(Tr \o V \o T, i) = 1

C2_Witness ==
    /\ pc = "done"
    /\ mode = "random"
    /\ N >= 2
    /\ Tr # << >>
    /\ T # << >>

\* C3: in ratio mode the total output size is N: every index of every
\* class lands in exactly one bucket and none is dropped.
C3_RatioCoversAll ==
    (pc = "done" /\ mode = "ratio") =>
        /\ Len(Tr) + Len(V) + Len(T) = N
        /\ \A i \in 0 .. (N - 1) : Occ(Tr \o V \o T, i) = 1

C3_Witness ==
    /\ pc = "done"
    /\ mode = "ratio"
    /\ Cardinality(Range(labels)) = 2
    /\ ratio_t + ratio_v = RatioDen
    /\ ratio_t > 0
    /\ ratio_v > 0
    /\ T # << >>

\* C4 as stated: in ratio mode every class c has floor(L_c*ratio_t) indices
\* in train, floor(L_c*ratio_v) in validation and
\* L_c - floor(L_c*ratio_t) - floor(L_c*ratio_v) in test.
C4_RatioCountsAsStated ==
    (pc = "done" /\ mode = "ratio") =>
        \A c \in Range(labels) :
            LET L  == ClassSize(c)
                ft == (L * ratio_t) \div RatioDen
                fv == (L * ratio_v) \div RatioDen
            IN  /\ CountOf(Tr, c) = ft
                /\ CountOf(V, c) = fv
                /\ CountOf(T, c) = L - ft - fv

\* C4 amended: in ratio mode every class c has floor(L_c*ratio_t) indices in
\* train; when floor(L_c*ratio_t) + floor(L_c*ratio_v) <= L_c it has
\* floor(L_c*ratio_v) in validation and the remaining
\* L_c - floor(L_c*ratio_t) - floor(L_c*ratio_v) in test; otherwise
\* validation has the L_c - floor(L_c*ratio_t) left after train and test has
\* none.
C4_RatioCounts ==
    (pc = "done" /\ mode = "ratio") =>
        \A c \in Range(labels) :
            LET L  == ClassSize(c)
                ft == (L * ratio_t) \div RatioDen
                fv == (L * ratio_v) \div RatioDen
            IN  /\ CountOf(Tr, c) = ft
                /\ ft + fv <= L => (CountOf(V, c) = fv /\ CountOf(T, c) = L - ft - fv)
                /\ ft + fv > L => (CountOf(V, c) = L - ft /\ CountOf(T, c) = 0)

C4_Witness ==
    /\ pc = "done"
    /\ mode = "ratio"
    /\ \E c \in Range(labels) :
         /\ (ClassSize(c) * ratio_t) \div RatioDen
              + (ClassSize(c) * ratio_v) \div RatioDen > ClassSize(c)
         /\ CountOf(V, c) > 0

\* C5: in same mode every class contributes exactly ceil(per_class*ratio_t)
\* indices to train and ceil(per_class*ratio_v) to validation, per_class
\* being the minimum class size.
C5_SameCounts ==
    (pc = "done" /\ mode = "same") =>
        \A c \in Range(labels) :
            /\ CountOf(Tr, c) = (MinClassSize * ratio_t + RatioDen - 1) \div RatioDen
            /\ CountOf(V, c) = (MinClassSize * ratio_v + RatioDen - 1) \div RatioDen

\* C6: in same mode the total output size is per_class * numClasses.
C6_SameTotal ==
    (pc = "done" /\ mode = "same") =>
        Len(Tr) + Len(V) + Len(T) = MinClassSize * Cardinality(Range(labels))

\* C7: when ratio_t or ratio_v lies outside [0, 1], split fails with the
\* invalid-ratio error whatever the mode and the labels, before class
\* grouping, mode dispatch and any permutation, and returns nothing.
C7_InvalidRatioFirst ==
    (ratio_t < 0 \/ ratio_t > RatioDen \/ ratio_v < 0 \/ ratio_v > RatioDen) =>
        /\ pc \in {"check_t", "check_v", "error"}
        /\ pc = "error" => err = "InvalidRatio"
        /\ pc = "check_v" => (ratio_t >= 0 /\ ratio_t <= RatioDen)
        /\ draws = 0
        /\ positions = << >>
        /\ tr = NoView /\ v = NoView /\ t = NoView

C7_Witness ==
    /\ pc = "error"
    /\ err = "InvalidRatio"
    /\ mode = "bogus"
    /\ ratio_t = RatioDen
    /\ ratio_v < 0
    /\ N > 0

\* C8: for an empty label sequence and valid ratios, split succeeds in
\* random, ratio and same mode and returns three empty subsets.
C8_EmptySucceeds ==
    (N = 0 /\ ValidRatios /\ mode \in {"random", "ratio", "same"}) =>
        /\ pc # "error"
        /\ pc = "done" => (Tr = << >> /\ V = << >> /\ T = << >>)

\* C9: split with shuffle=true changes only the order inside each bucket:
\* each bucket holds the same multiset of indices as the mode returned (what
\* shuffle=false returns), and shuffling one bucket leaves the buckets not
\* yet shuffled exactly as they were.
C9_ShuffleKeepsMembership ==
    pc \in {"shuffle_tr", "shuffle_v", "shuffle_t", "done"} =>
        /\ SameBag(Tr, ret.tr)
        /\ SameBag(V, ret.v)
        /\ SameBag(T, ret.t)
        /\ pc \in {"shuffle_tr", "shuffle_v"} => (V = ret.v /\ T = ret.t)
        /\ pc = "shuffle_t" => T = ret.t
        /\ shuffle = FALSE => (Tr = ret.tr /\ V = ret.v /\ T = ret.t)

C9_Witness ==
    /\ pc = "done"
    /\ shuffle = TRUE
    /\ mode = "random"
    /\ Tr # ret.tr
    /\ V # << >>

\* C10: in same mode with a non-empty label sequence, valid ratios and
\* ceil(per_class*ratio_t) + ceil(per_class*ratio_v) > per_class, split
\* raises no error and the test bucket is empty for every class.
C10_NegativeTestCountIsEmpty ==
    (/\ mode = "same"
     /\ N > 0
     /\ ValidRatios
     /\ (MinClassSize * ratio_t + RatioDen - 1) \div RatioDen
          + (MinClassSize * ratio_v + RatioDen - 1) \div RatioDen > MinClassSize) =>
        /\ pc # "error"
        /\ pc = "loop_same" => test = << >>
        /\ pc = "done" => T = << >>

C10_Witness ==
    /\ pc = "done"
    /\ mode = "same"
    /\ Cardinality(Range(labels)) = 2
    /\ (MinClassSize * ratio_t + RatioDen - 1) \div RatioDen
         + (MinClassSize * ratio_v + RatioDen - 1) \div RatioDen > MinClassSize
    /\ Tr # << >>
    /\ V # << >>

====
